---- MODULE Spec2Model ----
(***************************************************************************)
(* TimeSeriesFinanceClient (teii.finance.timeseries): the construction of  *)
(* the weekly-adjusted table from the JSON answer of the data source, and  *)
(* the four queries over it.                                               *)
(*                                                                         *)
(* Encoding.  Optional values (None / a value) and float cells (NaN / a    *)
(* number) are sequences of length at most one: << >> is None (resp. NaN)  *)
(* and <<x>> is the value x.  A calendar date is a day number 1..MaxDate;  *)
(* a pandas Timestamp is a tick number, TicksPerDay ticks to the day, so   *)
(* that date -> Timestamp -> date conversions are not the identity.        *)
(***************************************************************************)
EXTENDS Integers, Sequences, FiniteSets, TLC

\* ----------------------------------------------------------------- bounds
MaxRecords == 2           \* entries of the dated-records mapping
MaxDate == 3              \* calendar days 1..MaxDate
DaysPerYear == 2          \* days 1..DaysPerYear are year 1, and so on
TicksPerDay == 2          \* resolution of a Timestamp, in ticks per day

Days == 1..MaxDate

None == << >>
Some(x) == <<x>>
NaN == << >>
Num(n) == <<n>>
IsNaN(x) == x = NaN

\* datetime.date -> year, and DatetimeIndex.year of a Timestamp
date_year(d) == 1 + ((d - 1) \div DaysPerYear)
\* pd.Timestamp(date): midnight of that day
Timestamp(d) == d * TicksPerDay
\* Timestamp.to_pydatetime().date()
date_of(ts) == ts \div TicksPerDay
index_year(ts) == date_year(date_of(ts))
Years == {date_year(d) : d \in Days}

\* ------------------------------------------------------------ error values
InvalidData == "FinanceClientInvalidData"
ParamError == "FinanceClientParamError"
APIError == "FinanceClientAPIError"

NoDataMsg == "No weekly adjusted time series data found in API response."
EmptyFrameMsg == "DataFrame is empty after parsing JSON data."
BuildErrorPrefix == "Error building DataFrame from API response: "
SymbolMsg == "Metadata field '2. Symbol' not found"
DateRangeMsg == "'from_date' cannot be greater than 'to_date'"
YearRangeMsg == "'from_year' cannot be greater than 'to_year'"
NoRangeDataMsg == "No data available for the specified date range."

\* What a call ends with.  A message is the sequence of its parts.
Raise(exc, msg) == [kind |-> "raise", exc |-> exc, msg |-> msg, value |-> << >>]
Return(v) == [kind |-> "return", exc |-> "", msg |-> << >>, value |-> v]

\* ---------------------------------------------------------- field mapping
Labels == <<"1. open", "2. high", "3. low", "4. close", "5. adjusted close",
            "6. volume", "7. dividend amount">>

data_field2name_type ==
    [l \in {Labels[i] : i \in DOMAIN Labels} |->
        CASE l = "1. open" -> <<"open", "float">>
          [] l = "2. high" -> <<"high", "float">>
          [] l = "3. low" -> <<"low", "float">>
          [] l = "4. close" -> <<"close", "float">>
          [] l = "5. adjusted close" -> <<"aclose", "float">>
          [] l = "6. volume" -> <<"volume", "int">>
          [] l = "7. dividend amount" -> <<"dividend", "float">>]

KnownLabels == DOMAIN data_field2name_type
CanonicalNames == {data_field2name_type[l][1] : l \in KnownLabels}

\* ------------------------------------------------- the data source's answer
\* A key of the dated-records mapping is a string; it is modelled by the day it
\* denotes and the form it is written in: "date" is YYYY-MM-DD, "datetime" is
\* YYYY-MM-DDT00:00:00 (the same instant), "junk" is no date at all.
DateForms == {"date", "datetime"}
GoodKeys == {[day |-> d, form |-> f] : d \in Days, f \in DateForms}
JunkKey == [day |-> 1, form |-> "junk"]

\* A raw record maps field labels to strings.
Rec(o, h, l, c, a, v, d) ==
    [x \in KnownLabels |->
        CASE x = "1. open" -> o
          [] x = "2. high" -> h
          [] x = "3. low" -> l
          [] x = "4. close" -> c
          [] x = "5. adjusted close" -> a
          [] x = "6. volume" -> v
          [] x = "7. dividend amount" -> d]

Without(r, label) == [x \in (DOMAIN r) \ {label} |-> r[x]]

GoodRecords ==
    { Rec("1", "2", "1", "1", "1", "3", "0"),
      Rec("1", "3", "1", "2", "2", "2", "1"),
      Rec("0", "1", "0", "3", "3", "1", "-1") }

With(r, label, s) == [x \in (DOMAIN r) \cup {label} |-> IF x = label THEN s ELSE r[x]]

\* a label of the data source that is none of the seven known ones
ExtraLabel == "8. split coefficient"

\* a record with no field at all
EmptyRecord == [x \in {} |-> ""]

\* records of the shapes an untrusted answer can have: a float field left out,
\* the volume left out, a label beyond the seven, a value that is no number,
\* no field at all
OddRecords ==
    { Without(Rec("1", "2", "1", "1", "1", "3", "2"), "2. high"),
      Without(Rec("1", "2", "1", "1", "1", "3", "2"), "6. volume"),
      With(Rec("1", "2", "1", "1", "1", "3", "2"), ExtraLabel, "1"),
      Rec("1", "n/a", "1", "1", "1", "3", "2"),
      EmptyRecord }

GoodEntries == {[key |-> k, rec |-> r] : k \in GoodKeys, r \in GoodRecords}
\* an odd record comes under the first or the last day, in date form
OddKeys == {[day |-> d, form |-> "date"] : d \in {1, MaxDate}}
OddEntries ==
    {[key |-> JunkKey, rec |-> r] : r \in GoodRecords}
      \cup {[key |-> k, rec |-> r] : k \in OddKeys, r \in OddRecords}
Entries == GoodEntries \cup OddEntries

\* The mappings the data source may answer with: keys are distinct (a JSON
\* object read into a dict), in any order, at most one entry is odd.
Mappings ==
    { m \in UNION {[1..n -> Entries] : n \in 0..MaxRecords} :
        /\ \A i, j \in DOMAIN m : i # j => m[i].key # m[j].key
        /\ Cardinality({i \in DOMAIN m : m[i] \in OddEntries}) <= 1 }

Tickers == {"IBM", "MSFT"}

\* the ticker a client is asked for; the data source may answer for any of
\* Tickers, so the answered symbol can be the requested one, another, or absent
RequestedTickers == {"MSFT"}

\* ------------------------------------------------------------- conversions
\* float(s) of a field string, None when s is no number
float(s) ==
    CASE s = "-1" -> Some(Num(-1))
      [] s = "0" -> Some(Num(0))
      [] s = "1" -> Some(Num(1))
      [] s = "2" -> Some(Num(2))
      [] s = "3" -> Some(Num(3))
      [] OTHER -> None

\* Index.astype("datetime64[ns]") of one key, None when it does not parse
to_datetime(key) ==
    IF key.form \in DateForms THEN Some(Timestamp(key.day)) ELSE None

\* ---------------------------------------------------- _build_data_frame
\* pd.DataFrame.from_dict(json_data, orient='index', dtype='float'): one row
\* per entry, one column per label seen in any record, NaN where a record has
\* no such label.  None when a value is no number.
from_dict(m) ==
    LET columns == UNION {DOMAIN m[i].rec : i \in DOMAIN m}
        numeric == \A i \in DOMAIN m : \A c \in DOMAIN m[i].rec : float(m[i].rec[c]) # None
    IN  IF ~numeric THEN None
        ELSE Some([columns |-> columns,
                   rows |-> [i \in DOMAIN m |->
                       [index |-> m[i].key,
                        cells |-> [c \in columns |->
                            IF c \in DOMAIN m[i].rec THEN float(m[i].rec[c])[1] ELSE NaN]]]])

\* DataFrame.empty: some axis has length 0
frame_empty(df) == Len(df.rows) = 0 \/ df.columns = {}

\* DataFrame.rename(columns=...): known labels get their canonical names
new_name(c) == IF c \in KnownLabels THEN data_field2name_type[c][1] ELSE c
rename(df) ==
    [columns |-> {new_name(c) : c \in df.columns},
     rows |-> [i \in DOMAIN df.rows |->
         [index |-> df.rows[i].index,
          cells |-> [n \in {new_name(c) : c \in df.columns} |->
              df.rows[i].cells[CHOOSE c \in df.columns : new_name(c) = n]]]]]

\* A faulty variant of astype: the frame goes on untyped, whatever it holds.
astype_lenient(df) == Some(df)

\* DataFrame.astype(dtype={name: type}): None (KeyError) when a canonical
\* column is missing, None (cannot convert NaN to integer) when an int column
\* holds NaN.
astype(df) ==
    LET intcols == {data_field2name_type[l][1] : l \in {k \in KnownLabels : data_field2name_type[k][2] = "int"}}
    IN  IF ~(CanonicalNames \subseteq df.columns) THEN None
        ELSE IF \E i \in DOMAIN df.rows : \E c \in intcols : IsNaN(df.rows[i].cells[c]) THEN None
        ELSE Some(df)

\* data_frame.index = data_frame.index.astype("datetime64[ns]")
index_astype(df) ==
    IF \E i \in DOMAIN df.rows : to_datetime(df.rows[i].index) = None THEN None
    ELSE Some([columns |-> df.columns,
               rows |-> [i \in DOMAIN df.rows |->
                   [index |-> to_datetime(df.rows[i].index)[1],
                    cells |-> df.rows[i].cells]]])

\* A faulty variant of sort_index: of the rows that carry the same index only
\* one is kept.
sort_index_unique(df) ==
    LET n == Len(df.rows)
        perms == {p \in [1..n -> 1..n] : \A i, j \in 1..n : i # j => p[i] # p[j]}
        sorted(p) == \A i \in 1..n : \A j \in 1..n :
                        i < j => df.rows[p[i]].index <= df.rows[p[j]].index
        kept(p) == {k \in 1..n : \A j \in 1..n : j < k => df.rows[p[j]].index # df.rows[p[k]].index}
        nth(p, i) == CHOOSE k \in kept(p) : Cardinality({j \in kept(p) : j <= k}) = i
    IN  {[columns |-> df.columns,
          rows |-> [i \in 1..Cardinality(kept(p)) |-> df.rows[p[nth(p, i)]]]] :
            p \in {q \in perms : sorted(q)}}

\* A faulty variant of sort_index: the frame is left in the order of the mapping
\* (the sorted copy is thrown away).
sort_index_discarded(df) == {df}

\* DataFrame.sort_index(ascending=True): the rows in ascending index order.
\* The default sort is not stable, so rows of equal index come in any order.
sort_index(df) ==
    LET n == Len(df.rows)
        perms == {p \in [1..n -> 1..n] : \A i, j \in 1..n : i # j => p[i] # p[j]}
        sorted(p) == \A i \in 1..n : \A j \in 1..n :
                        i < j => df.rows[p[i]].index <= df.rows[p[j]].index
    IN  {[columns |-> df.columns, rows |-> [i \in 1..n |-> df.rows[p[i]]]] :
            p \in {q \in perms : sorted(q)}}

InvalidDataError(parts) == Raise(InvalidData, parts)

\* A faulty variant of WrappedError: the exception leaves the try block as it
\* is, not caught and not raised again.
UncaughtError(cause) ==
    IF cause = EmptyFrameMsg THEN InvalidDataError(<<cause>>) ELSE Raise("ValueError", <<cause>>)

\* except Exception as e: raise FinanceClientInvalidData(prefix + str(e))
WrappedError(cause) == InvalidDataError(<<BuildErrorPrefix, cause>>)

\* The try block of _build_data_frame on the mapping m: every exception in it,
\* the empty-frame error included, is caught and raised again as
\* FinanceClientInvalidData with the prefix.
try_build(m) ==
    LET parsed == from_dict(m) IN
    IF parsed = None THEN {WrappedError("could not convert string to float")}
    ELSE IF frame_empty(parsed[1]) THEN {WrappedError(EmptyFrameMsg)}
    ELSE LET typed == astype(rename(parsed[1])) IN
         IF typed = None THEN {WrappedError("astype")}
         ELSE LET dated == index_astype(typed[1]) IN
              IF dated = None THEN {WrappedError("datetime")}
              ELSE {Return(df) : df \in sort_index(dated[1])}

\* A faulty variant of build_data_frame: the guard tests "is None" instead of
\* "not", so an empty mapping goes on into the try block.
build_data_frame_is_none(json_data) ==
    IF json_data = None
    THEN {InvalidDataError(<<NoDataMsg>>)}
    ELSE try_build(json_data[1])

\* The outcomes of _build_data_frame on self._json_data (an optional mapping):
\* a raise, or a return with the new self._data_frame.
build_data_frame(json_data) ==
    IF json_data = None \/ json_data[1] = << >>
    THEN {InvalidDataError(<<NoDataMsg>>)}
    ELSE try_build(json_data[1])

\* ---------------------------------------------------- _validate_query_data
\* A faulty variant of validate_query_data: nothing is checked.
validate_query_data_accepting(json_metadata, ticker) == Return(<< >>)

\* A faulty variant of validate_query_data: only a missing field is an error,
\* the symbol is not compared with the ticker.
validate_query_data_presence_only(json_metadata, ticker) ==
    IF json_metadata.symbol = None THEN InvalidDataError(<<SymbolMsg>>)
    ELSE Return(<< >>)

\* assert self._json_metadata["2. Symbol"] == self._ticker, any exception
\* (KeyError, AssertionError) re-raised as FinanceClientInvalidData
validate_query_data(json_metadata, ticker) ==
    IF json_metadata.symbol = None THEN InvalidDataError(<<SymbolMsg>>)
    ELSE IF json_metadata.symbol[1] # ticker THEN InvalidDataError(<<SymbolMsg>>)
    ELSE Return(<< >>)

\* ------------------------------------------------------ pandas selections
\* df[name]: the column as a Series, a sequence of (index, value)
column(df, name) ==
    [i \in DOMAIN df.rows |-> [index |-> df.rows[i].index, value |-> df.rows[i].cells[name]]]

\* numpy searchsorted on a sorted index: the number of leading entries that
\* lie before v (side "left") or not after v (side "right")
searchsorted(series, v, side) ==
    LET n == Len(series)
        before(i) == IF side = "left" THEN series[i].index < v ELSE series[i].index <= v
    IN  CHOOSE k \in 0..n : (\A i \in 1..k : before(i)) /\ (k = n \/ ~before(k + 1))

\* A faulty variant of slice_start: the lower bound itself is left out.
slice_start_exclusive(series, from_date) ==
    IF from_date = None THEN 1
    ELSE searchsorted(series, Timestamp(from_date[1]), "right") + 1

\* the first position of series.loc[from_date:...]; a date bound is cast to
\* the Timestamp of its midnight
slice_start(series, from_date) ==
    IF from_date = None THEN 1
    ELSE searchsorted(series, Timestamp(from_date[1]), "left") + 1

\* A faulty variant of slice_stop: the upper bound itself is left out.
slice_stop_exclusive(series, to_date) ==
    IF to_date = None THEN Len(series)
    ELSE searchsorted(series, Timestamp(to_date[1]), "left")

\* the last position of series.loc[...:to_date]
slice_stop(series, to_date) ==
    IF to_date = None THEN Len(series)
    ELSE searchsorted(series, Timestamp(to_date[1]), "right")

\* series.loc[from_date:to_date], either bound optional
loc_slice(series, from_date, to_date) ==
    SubSeq(series, slice_start(series, from_date), slice_stop(series, to_date))

\* A faulty variant of date_range_invalid: equal bounds are refused too.
date_range_invalid_or_equal(from_date, to_date) == from_date[1] >= to_date[1]

\* if from_date > to_date (weekly_price, weekly_volume, highest_weekly_variation)
date_range_invalid(from_date, to_date) == from_date[1] > to_date[1]

\* if from_year > to_year (yearly_dividends)
year_range_invalid(from_year, to_year) == from_year[1] > to_year[1]

\* ------------------------------------------------------------ weekly_price
weekly_price(df, from_date, to_date) ==
    LET series == column(df, "aclose") IN
    IF from_date # None /\ to_date # None
    THEN IF date_range_invalid(from_date, to_date)
         THEN Raise(ParamError, <<DateRangeMsg>>)
         ELSE Return(loc_slice(series, from_date, to_date))
    ELSE IF from_date # None THEN Return(loc_slice(series, from_date, None))
    ELSE IF to_date # None THEN Return(loc_slice(series, None, to_date))
    ELSE Return(series)

\* ----------------------------------------------------------- weekly_volume
weekly_volume(df, from_date, to_date) ==
    LET series == column(df, "volume") IN
    IF from_date # None /\ to_date # None
    THEN IF date_range_invalid(from_date, to_date)
         THEN Raise(ParamError, <<DateRangeMsg>>)
         ELSE Return(loc_slice(series, from_date, to_date))
    ELSE IF from_date # None THEN Return(loc_slice(series, from_date, None))
    ELSE IF to_date # None THEN Return(loc_slice(series, None, to_date))
    ELSE Return(series)

\* -------------------------------------------------------- yearly_dividends
\* A faulty variant of positive: zero dividends are kept.
nonnegative(entry) == ~IsNaN(entry.value) /\ entry.value[1] >= 0

\* dividends_series[dividends_series > 0]: a comparison with NaN is False
positive(entry) == ~IsNaN(entry.value) /\ entry.value[1] > 0

\* dividends_series.index.year >= from_year
year_from(from_year, entry) == index_year(entry.index) >= from_year[1]
\* A faulty variant of year_to: the year to_year itself is left out.
year_to_exclusive(to_year, entry) == index_year(entry.index) < to_year[1]

\* dividends_series.index.year <= to_year
year_to(to_year, entry) == index_year(entry.index) <= to_year[1]

RECURSIVE sum(_)
sum(series) == IF series = << >> THEN 0 ELSE series[1].value[1] + sum(Tail(series))

RECURSIVE ascending(_)
ascending(S) ==
    IF S = {} THEN << >>
    ELSE LET least == CHOOSE x \in S : \A y \in S : x <= y
         IN  <<least>> \o ascending(S \ {least})

\* series.groupby(series.index.year).sum(): one entry per year present, the
\* years in ascending order
groupby_year_sum(series) ==
    LET years == {index_year(series[i].index) : i \in DOMAIN series}
        in_year(y) == LET keep(e) == index_year(e.index) = y IN SelectSeq(series, keep)
        order == ascending(years)
    IN  [k \in DOMAIN order |-> [index |-> order[k], value |-> Num(sum(in_year(order[k])))]]

yearly_dividends(df, from_year, to_year) ==
    LET dividends_series == SelectSeq(column(df, "dividend"), positive)
        from_ok(e) == year_from(from_year, e)
        to_ok(e) == year_to(to_year, e)
        both_ok(e) == from_ok(e) /\ to_ok(e)
    IN
    IF from_year # None /\ to_year # None
    THEN IF year_range_invalid(from_year, to_year)
         THEN Raise(ParamError, <<YearRangeMsg>>)
         ELSE Return(groupby_year_sum(SelectSeq(dividends_series, both_ok)))
    ELSE IF from_year # None THEN Return(groupby_year_sum(SelectSeq(dividends_series, from_ok)))
    ELSE IF to_year # None THEN Return(groupby_year_sum(SelectSeq(dividends_series, to_ok)))
    ELSE Return(groupby_year_sum(dividends_series))

\* ------------------------------------------------ highest_weekly_variation
\* df['high'] - df['low'], NaN where either is NaN
minus(a, b) == IF IsNaN(a) \/ IsNaN(b) THEN NaN ELSE Num(a[1] - b[1])

\* df_variation: the rows with index, high, low and variation
variation_frame(df) ==
    [i \in DOMAIN df.rows |->
        [index |-> df.rows[i].index,
         high |-> df.rows[i].cells["high"],
         low |-> df.rows[i].cells["low"],
         variation |-> minus(df.rows[i].cells["high"], df.rows[i].cells["low"])]]

\* A faulty variant of idxmax: the label of the last occurrence of the maximum.
idxmax_last(rows) ==
    LET valid == {i \in DOMAIN rows : ~IsNaN(rows[i].variation)}
    IN  IF valid = {} THEN None
        ELSE LET last == CHOOSE i \in valid :
                     /\ \A j \in valid : rows[j].variation[1] <= rows[i].variation[1]
                     /\ \A j \in valid : j > i => rows[j].variation[1] < rows[i].variation[1]
             IN  Some(rows[last].index)

\* Series.idxmax(): the label of the first occurrence of the maximum, NaN
\* skipped; None when every value is NaN
idxmax(rows) ==
    LET valid == {i \in DOMAIN rows : ~IsNaN(rows[i].variation)}
    IN  IF valid = {} THEN None
        ELSE LET first == CHOOSE i \in valid :
                     /\ \A j \in valid : rows[j].variation[1] <= rows[i].variation[1]
                     /\ \A j \in valid : j < i => rows[j].variation[1] < rows[i].variation[1]
             IN  Some(rows[first].index)

\* df_variation.loc[label]: every row carrying that label
loc_label(rows, label) == LET hit(r) == r.index = label IN SelectSeq(rows, hit)

\* highest_weekly_variation on a selection that is not empty: the row of
\* highest variation is looked up and made into the tuple.  The tuple's
\* high, low and variation are sequences: of length one when the label is
\* unique in the index (loc gives a row, its fields are scalars), longer when
\* the label is repeated (loc gives a frame, its fields are Series).
variation_tuple(rows) ==
    LET max_variation_date == idxmax(rows) IN
    IF max_variation_date = None
    THEN {Raise("KeyError", <<"nan">>), Raise("ValueError", <<"all-NA">>)}
    ELSE LET max_variation_row == loc_label(rows, max_variation_date[1]) IN
         {Return([date |-> date_of(max_variation_date[1]),
                  high |-> [i \in DOMAIN max_variation_row |-> max_variation_row[i].high],
                  low |-> [i \in DOMAIN max_variation_row |-> max_variation_row[i].low],
                  variation |-> [i \in DOMAIN max_variation_row |-> max_variation_row[i].variation]])}

\* A faulty variant of max_variation: the check for an empty selection is
\* left out.
max_variation_unchecked(rows) == variation_tuple(rows)

\* highest_weekly_variation after the date filter: the selection is refused
\* when it is empty, else its row of highest variation is looked up.
max_variation(rows) ==
    IF rows = << >> THEN {Raise(InvalidData, <<NoRangeDataMsg>>)}
    ELSE variation_tuple(rows)

\* The outcomes of highest_weekly_variation.
highest_weekly_variation(df, from_date, to_date) ==
    LET df_variation == variation_frame(df) IN
    IF from_date # None /\ to_date # None
    THEN IF date_range_invalid(from_date, to_date)
         THEN {Raise(ParamError, <<DateRangeMsg>>)}
         ELSE max_variation(loc_slice(df_variation, from_date, to_date))
    ELSE IF from_date # None THEN max_variation(loc_slice(df_variation, from_date, None))
    ELSE IF to_date # None THEN max_variation(loc_slice(df_variation, None, to_date))
    ELSE max_variation(df_variation)

\* --------------------------------------------- the table after each query
\* self._data_frame after weekly_price: the method reads it and assigns
\* nothing to it.
weekly_price_frame(df, from_date, to_date) == df

\* self._data_frame after weekly_volume
weekly_volume_frame(df, from_date, to_date) == df

\* self._data_frame after yearly_dividends: the filters make new Series
yearly_dividends_frame(df, from_year, to_year) == df

\* A faulty variant of highest_weekly_variation_frame: the variation is written
\* into the table itself, as a column, instead of into a copy.
highest_weekly_variation_in_place(df, from_date, to_date) ==
    IF from_date # None /\ to_date # None /\ date_range_invalid(from_date, to_date)
    THEN df
    ELSE [columns |-> df.columns \cup {"variation"},
          rows |-> [i \in DOMAIN df.rows |->
              [index |-> df.rows[i].index,
               cells |-> [c \in df.columns \cup {"variation"} |->
                   IF c = "variation"
                   THEN minus(df.rows[i].cells["high"], df.rows[i].cells["low"])
                   ELSE df.rows[i].cells[c]]]]]

\* A faulty variant of highest_weekly_variation_frame: the date filter is
\* applied to the table itself instead of to a copy.
highest_weekly_variation_filtering(df, from_date, to_date) ==
    IF from_date # None /\ to_date # None /\ date_range_invalid(from_date, to_date)
    THEN df
    ELSE [columns |-> df.columns, rows |-> loc_slice(df.rows, from_date, to_date)]

\* self._data_frame after highest_weekly_variation: the filter and the
\* variation column go to df_variation, a copy of two columns.
highest_weekly_variation_frame(df, from_date, to_date) == df

\* ------------------------------------------ the statements each query runs
\* the statements weekly_price has run when it ends with outcome r
weekly_price_steps(from_date, to_date, r) ==
    <<"assert", "column">> \o
    ( IF from_date # None /\ to_date # None
      THEN <<"range_check">> \o
           (IF r.kind = "raise" THEN <<"raise">> ELSE <<"slice", "return">>)
      ELSE IF from_date # None \/ to_date # None THEN <<"slice", "return">>
      ELSE <<"return">> )

\* the statements weekly_volume has run when it ends with outcome r
weekly_volume_steps(from_date, to_date, r) ==
    <<"assert", "column">> \o
    ( IF from_date # None /\ to_date # None
      THEN <<"range_check">> \o
           (IF r.kind = "raise" THEN <<"raise">> ELSE <<"slice", "return">>)
      ELSE IF from_date # None \/ to_date # None THEN <<"slice", "return">>
      ELSE <<"return">> )

\* the statements yearly_dividends has run when it ends with outcome r: the
\* non-positive dividends are dropped before the bounds are looked at
yearly_dividends_steps(from_year, to_year, r) ==
    <<"assert", "column", "filter_positive">> \o
    ( IF from_year # None /\ to_year # None
      THEN <<"range_check">> \o
           (IF r.kind = "raise" THEN <<"raise">>
            ELSE <<"filter_years", "groupby_sum", "return">>)
      ELSE IF from_year # None \/ to_year # None
           THEN <<"filter_years", "groupby_sum", "return">>
      ELSE <<"groupby_sum", "return">> )

\* the statements highest_weekly_variation has run when it ends with outcome
\* r: the two columns are copied before the bounds are looked at
highest_weekly_variation_steps(from_date, to_date, r) ==
    LET found == IF r.kind = "return" THEN <<"variation", "idxmax", "loc", "return">>
                 ELSE IF r.exc = InvalidData THEN <<"raise">>
                 ELSE IF r.exc = "KeyError" THEN <<"variation", "idxmax", "loc", "raise">>
                 ELSE <<"variation", "idxmax", "raise">>
    IN
    <<"assert", "copy">> \o
    ( IF from_date # None /\ to_date # None
      THEN <<"range_check">> \o
           (IF r.kind = "raise" /\ r.exc = ParamError THEN <<"raise">>
            ELSE <<"slice", "empty_check">> \o found)
      ELSE IF from_date # None \/ to_date # None
           THEN <<"slice", "empty_check">> \o found
      ELSE <<"empty_check">> \o found )

\* ===================================================================== state
VARIABLES
    pc,             \* where the client is: "new", "validate", "build" (inside the
                    \* constructor), "ready" (with its caller), "returned" (a query
                    \* has just returned or raised), "failed" (no client)
    ticker,         \* self._ticker
    json_metadata,  \* self._json_metadata
    json_data,      \* self._json_data, None when the answer has no such section
    data_frame,     \* self._data_frame, None until built
    error,          \* the exception that ended construction, if any
    call,           \* the last query called on the client
    outcome,        \* what that query returned or raised
    steps,          \* the statements that query ran, in order
    memo,           \* a call and its outcome that the caller has kept, if any
    writes          \* how often the caller has written into a returned Series

vars == <<pc, ticker, json_metadata, json_data, data_frame, error, call, outcome,
          steps, memo, writes>>

NoCall == [op |-> "none", from |-> None, to |-> None]
Call(op, from, to) == [op |-> op, from |-> from, to |-> to]
NoOutcome == [kind |-> "none", exc |-> "", msg |-> << >>, value |-> << >>]

OptDates == {None} \cup {Some(d) : d \in Days}
OptYears == {None} \cup {Some(y) : y \in Years}

QueryNames == {"weekly_price", "weekly_volume", "yearly_dividends",
               "highest_weekly_variation"}

AssertionError == "AssertionError"
BuiltMsg == "DataFrame has not been built."

\* A faulty variant of assert_built: the assertion is left out.
assert_built_skipped(frame) == TRUE

\* assert self._data_frame is not None, the first statement of every query
assert_built(frame) == frame # None

\* the message of the failed assertion: weekly_price and weekly_volume give none
assert_message(op) ==
    IF op \in {"yearly_dividends", "highest_weekly_variation"} THEN <<BuiltMsg>> ELSE << >>

\* The outcomes of the query op called with the bounds from and to while
\* self._data_frame is frame.  Without a table the assertion fails; were it
\* passed, the first subscript of None would raise TypeError.
Outcomes(op, frame, from, to) ==
    IF ~assert_built(frame) THEN {Raise(AssertionError, assert_message(op))}
    ELSE IF frame = None THEN {Raise("TypeError", <<"'NoneType' object is not subscriptable">>)}
    ELSE CASE op = "weekly_price" -> {weekly_price(frame[1], from, to)}
           [] op = "weekly_volume" -> {weekly_volume(frame[1], from, to)}
           [] op = "yearly_dividends" -> {yearly_dividends(frame[1], from, to)}
           [] op = "highest_weekly_variation" -> highest_weekly_variation(frame[1], from, to)

\* the statements that call has run when it ends with outcome r
Steps(op, frame, from, to, r) ==
    IF ~assert_built(frame) THEN <<"assert", "raise">>
    ELSE IF frame = None THEN <<"raise">>
    ELSE CASE op = "weekly_price" -> weekly_price_steps(from, to, r)
           [] op = "weekly_volume" -> weekly_volume_steps(from, to, r)
           [] op = "yearly_dividends" -> yearly_dividends_steps(from, to, r)
           [] op = "highest_weekly_variation" -> highest_weekly_variation_steps(from, to, r)

\* self._data_frame after that call
FrameAfter(op, frame, from, to) ==
    IF frame = None THEN None
    ELSE CASE op = "weekly_price" -> Some(weekly_price_frame(frame[1], from, to))
           [] op = "weekly_volume" -> Some(weekly_volume_frame(frame[1], from, to))
           [] op = "yearly_dividends" -> Some(yearly_dividends_frame(frame[1], from, to))
           [] op = "highest_weekly_variation" ->
                Some(highest_weekly_variation_frame(frame[1], from, to))

\* the caller's kept call, marked once a different call has been made since
Noted(m, c) ==
    IF m = None THEN None
    ELSE Some([call |-> m[1].call, outcome |-> m[1].outcome,
               other |-> m[1].other \/ c # m[1].call])

\* one call of a query method: its outcome, its statements and its effect on
\* the table
Invoke(op, from, to) ==
    /\ call' = Call(op, from, to)
    /\ \E r \in Outcomes(op, data_frame, from, to) :
          /\ outcome' = r
          /\ steps' = Steps(op, data_frame, from, to, r)
    /\ data_frame' = FrameAfter(op, data_frame, from, to)
    /\ memo' = Noted(memo, Call(op, from, to))

Init ==
    /\ pc = "new"
    /\ ticker \in RequestedTickers
    /\ json_metadata = [symbol |-> None]
    /\ json_data = None
    /\ data_frame = None
    /\ error = None
    /\ call = NoCall
    /\ outcome = NoOutcome
    /\ steps = << >>
    /\ memo = None
    /\ writes = 0

\* FinanceClient.__init__: the data source is asked for the ticker's series;
\* the access fails, or its answer is split into metadata and dated records.
QueryApi ==
    /\ pc = "new"
    /\ \/ /\ pc' = "failed"
          /\ error' = Some(Raise(APIError, <<"Unsuccessful API access">>))
          /\ UNCHANGED <<json_metadata, json_data>>
       \/ /\ \E s \in {None} \cup {Some(t) : t \in Tickers} :
                json_metadata' = [symbol |-> s]
          /\ \E d \in {None} \cup {Some(m) : m \in Mappings} : json_data' = d
          /\ pc' = "validate"
          /\ error' = None
    /\ UNCHANGED <<ticker, data_frame, call, outcome, steps, memo, writes>>

\* FinanceClient.__init__ calls self._validate_query_data()
ValidateQueryData ==
    /\ pc = "validate"
    /\ LET r == validate_query_data(json_metadata, ticker) IN
       IF r.kind = "raise"
       THEN pc' = "failed" /\ error' = Some(r)
       ELSE pc' = "build" /\ error' = None
    /\ UNCHANGED <<ticker, json_metadata, json_data, data_frame, call, outcome,
                   steps, memo, writes>>

\* TimeSeriesFinanceClient.__init__ calls self._build_data_frame()
BuildDataFrame ==
    /\ pc = "build"
    /\ \E r \in build_data_frame(json_data) :
          IF r.kind = "raise"
          THEN pc' = "failed" /\ error' = Some(r) /\ data_frame' = None
          ELSE pc' = "ready" /\ error' = None /\ data_frame' = Some(r.value)
    /\ UNCHANGED <<ticker, json_metadata, json_data, call, outcome, steps, memo, writes>>

WeeklyPrice ==
    /\ pc = "ready"
    /\ \E f \in OptDates, t \in OptDates : Invoke("weekly_price", f, t)
    /\ pc' = "returned"
    /\ UNCHANGED <<ticker, json_metadata, json_data, error, writes>>

WeeklyVolume ==
    /\ pc = "ready"
    /\ \E f \in OptDates, t \in OptDates : Invoke("weekly_volume", f, t)
    /\ pc' = "returned"
    /\ UNCHANGED <<ticker, json_metadata, json_data, error, writes>>

YearlyDividends ==
    /\ pc = "ready"
    /\ \E f \in OptYears, t \in OptYears : Invoke("yearly_dividends", f, t)
    /\ pc' = "returned"
    /\ UNCHANGED <<ticker, json_metadata, json_data, error, writes>>

HighestWeeklyVariation ==
    /\ pc = "ready"
    /\ \E f \in OptDates, t \in OptDates : Invoke("highest_weekly_variation", f, t)
    /\ pc' = "returned"
    /\ UNCHANGED <<ticker, json_metadata, json_data, error, writes>>

\* The caller has taken what the query returned or raised; the client is idle
\* again and may be queried again.
Resume ==
    /\ pc = "returned"
    /\ pc' = "ready"
    /\ call' = NoCall
    /\ outcome' = NoOutcome
    /\ steps' = << >>
    /\ UNCHANGED <<ticker, json_metadata, json_data, data_frame, error, memo, writes>>

Next ==
    \/ QueryApi
    \/ ValidateQueryData
    \/ BuildDataFrame
    \/ WeeklyPrice
    \/ WeeklyVolume
    \/ YearlyDividends
    \/ HighestWeeklyVariation
    \/ Resume

Spec == Init /\ [][Next]_vars

\* ------------------------------------------- a query during construction
\* A query method is called on the object while its constructor is still
\* running, so before self._data_frame is assigned.  What the call raises
\* leaves the constructor, and no client is handed out.
EarlyCall ==
    /\ pc \in {"validate", "build"}
    /\ \E op \in QueryNames : Invoke(op, None, None)
    /\ IF outcome'.kind = "raise"
       THEN pc' = "failed" /\ error' = Some(outcome')
       ELSE UNCHANGED <<pc, error>>
    /\ UNCHANGED <<ticker, json_metadata, json_data, writes>>

NextEarly == Next \/ EarlyCall

SpecEarly == Init /\ [][NextEarly]_vars

\* ---------------------------------------------- a caller that keeps a result
\* answers of the regular shape: full records under date keys, latest first
RegularMappings ==
    { m \in Mappings :
        /\ m # << >>
        /\ \A i \in DOMAIN m : m[i] \in GoodEntries /\ m[i].key.form = "date"
        /\ \A i, j \in DOMAIN m : i < j => m[i].key.day > m[j].key.day }

\* FinanceClient.__init__ when the data source answers for the requested
\* ticker with records of the regular shape
QueryApiRegular ==
    /\ pc = "new"
    /\ json_metadata' = [symbol |-> Some(ticker)]
    /\ \E m \in RegularMappings : json_data' = Some(m)
    /\ pc' = "validate"
    /\ error' = None
    /\ UNCHANGED <<ticker, data_frame, call, outcome, steps, memo, writes>>

\* The caller keeps the call just made and its outcome, to compare it with a
\* later call of the same query with the same arguments.
Remember ==
    /\ pc = "returned"
    /\ memo = None
    /\ memo' = Some([call |-> call, outcome |-> outcome, other |-> FALSE])
    /\ UNCHANGED <<pc, ticker, json_metadata, json_data, data_frame, error, call,
                   outcome, steps, writes>>

NextRepeat ==
    \/ QueryApiRegular
    \/ ValidateQueryData
    \/ BuildDataFrame
    \/ WeeklyPrice
    \/ WeeklyVolume
    \/ YearlyDividends
    \/ HighestWeeklyVariation
    \/ Resume
    \/ Remember

SpecRepeat == Init /\ [][NextRepeat]_vars

\* ------------------------------------- a caller that writes into a result
MaxWrites == 1

\* series.iloc[position] = v on the Series df[name] handed out by a query: the
\* frames df can be afterwards.  Under copy-on-write the Series gets its own
\* memory and df stays; otherwise the Series is a view of the frame's memory
\* and the write lands in df.
series_setitem(df, name, position, v) ==
    {df, [df EXCEPT !.rows[position].cells[name] = v]}

\* The caller of weekly_price or weekly_volume writes a new value into the
\* first entry of the Series it was given.
ModifySeries ==
    /\ pc = "returned"
    /\ call.op \in {"weekly_price", "weekly_volume"}
    /\ outcome.kind = "return"
    /\ outcome.value # << >>
    /\ writes < MaxWrites
    /\ LET name == IF call.op = "weekly_price" THEN "aclose" ELSE "volume"
           position == slice_start(column(data_frame[1], name), call.from)
           v == Num(outcome.value[1].value[1] + 1)
       IN  /\ outcome' = [outcome EXCEPT !.value[1].value = v]
           /\ \E df \in series_setitem(data_frame[1], name, position, v) :
                 data_frame' = Some(df)
    /\ writes' = writes + 1
    /\ UNCHANGED <<pc, ticker, json_metadata, json_data, error, call, steps, memo>>

NextCaller == Next \/ ModifySeries

SpecCaller == Init /\ [][NextCaller]_vars

\* ==================================================================== claims
\* the data source has answered (construction did not end in an API error)
Answered ==
    /\ pc # "new"
    /\ ~(pc = "failed" /\ error[1].exc = APIError)
ConstructionOver == pc \in {"ready", "returned", "failed"}
Built == pc \in {"ready", "returned"}
Table == data_frame[1].rows
SymbolValid == json_metadata.symbol = Some(ticker)
NoRecords == json_data = None \/ json_data[1] = << >>
FailedWith(exc, msg) ==
    /\ pc = "failed"
    /\ data_frame = None
    /\ error # None
    /\ error[1].kind = "raise"
    /\ error[1].exc = exc
    /\ error[1].msg = msg

\* C1 (as claimed): the index of every built table is strictly ascending, so
\* no date occurs twice, also when two keys of the mapping denote the same date.
C1_StrictlyAscendingIndex ==
    Built => \A i, j \in DOMAIN Table : i < j => Table[i].index < Table[j].index

\* C2 (as claimed): whenever the answer has no dated records (the section is
\* absent or empty), construction fails with FinanceClientInvalidData and the
\* message "No weekly adjusted time series data found in API response.", and
\* no table exists.
C2_NoRecordsAlwaysNoDataMessage ==
    (Answered /\ ConstructionOver /\ NoRecords)
        => FailedWith(InvalidData, <<NoDataMsg>>)

\* C2 (amended): whenever the answer has no dated records, construction fails
\* with FinanceClientInvalidData and no table exists; the message is the
\* no-data message when the metadata symbol equals the ticker, and the
\* metadata message otherwise, because the metadata is checked first.
C2_NoRecordsFails ==
    (Answered /\ ConstructionOver /\ NoRecords)
        => IF SymbolValid
           THEN FailedWith(InvalidData, <<NoDataMsg>>)
           ELSE FailedWith(InvalidData, <<SymbolMsg>>)

\* C2 witness: a metadata-only answer for the requested ticker was refused
\* with the no-data message.
C2_Witness ==
    /\ Answered /\ json_data = None /\ SymbolValid
    /\ FailedWith(InvalidData, <<NoDataMsg>>)

\* C3: once the metadata has been validated, construction has failed with
\* FinanceClientInvalidData "Metadata field '2. Symbol' not found" if the
\* symbol field is absent or differs from the ticker, and it has gone on
\* (no metadata error) exactly when the field is present and equal.
C3_MetadataValidation ==
    (Answered /\ pc # "validate")
        => IF SymbolValid
           THEN ~(pc = "failed" /\ error[1].msg = <<SymbolMsg>>)
           ELSE FailedWith(InvalidData, <<SymbolMsg>>)

\* C3 witness: a symbol that is present but is another ticker's was refused.
C3_Witness ==
    /\ Answered /\ json_metadata.symbol # None /\ json_metadata.symbol[1] # ticker
    /\ FailedWith(InvalidData, <<SymbolMsg>>)

\* ------------------------------------------------------------ query claims
Returned(op) == pc = "returned" /\ call.op = op
BothBounds == call.from # None /\ call.to # None
Inverted == BothBounds /\ call.from[1] > call.to[1]
Raised(exc, msg) == outcome.kind = "raise" /\ outcome.exc = exc /\ outcome.msg = msg
SeriesCall == pc = "returned" /\ call.op \in {"weekly_price", "weekly_volume"}
ColumnOf(op) == IF op = "weekly_price" THEN "aclose" ELSE "volume"

\* the row's calendar date lies within the bounds, each applied when given
InBounds(ts, from, to) ==
    /\ from # None => from[1] <= date_of(ts)
    /\ to # None => date_of(ts) <= to[1]

\* the rows of the table within the bounds, in table order, as (index, value)
\* of the column col
RowsInBounds(from, to) == LET keep(r) == InBounds(r.index, from, to) IN SelectSeq(Table, keep)
ExpectedSeries(col, from, to) ==
    LET rows == RowsInBounds(from, to)
    IN  [i \in DOMAIN rows |-> [index |-> rows[i].index, value |-> rows[i].cells[col]]]
IsAscending(series) ==
    \A i, j \in DOMAIN series : i < j => series[i].index <= series[j].index

\* C4: a call with both bounds and from > to ends with FinanceClientParamError
\* whatever the table holds (weekly_price, weekly_volume and
\* highest_weekly_variation on dates, yearly_dividends on years), and a call
\* with both bounds and from <= to, from = to included, never does.
C4_InvertedRangeIsParamError ==
    (pc = "returned" /\ BothBounds)
        => IF call.from[1] > call.to[1]
           THEN Raised(ParamError,
                       IF call.op = "yearly_dividends" THEN <<YearRangeMsg>> ELSE <<DateRangeMsg>>)
           ELSE ~(outcome.kind = "raise" /\ outcome.exc = ParamError)

\* C4 witness: highest_weekly_variation was called with from_date > to_date on
\* a table with no row from to_date to from_date, and raised ParamError.
C4_Witness ==
    /\ Returned("highest_weekly_variation") /\ Inverted
    /\ \A i \in DOMAIN Table : date_of(Table[i].index) \notin call.to[1]..call.from[1]
    /\ Raised(ParamError, <<DateRangeMsg>>)

\* C5: weekly_price and weekly_volume with both bounds and from_date <= to_date
\* return exactly the rows dated within [from_date, to_date], both ends
\* included, in ascending date order, with the table's value of the column.
C5_BothBoundsInclusive ==
    (SeriesCall /\ BothBounds /\ ~Inverted)
        => /\ outcome.kind = "return"
           /\ outcome.value = ExpectedSeries(ColumnOf(call.op), call.from, call.to)
           /\ IsAscending(outcome.value)

\* C5 witness: from_date = to_date, the row of that day is returned and the
\* table holds another row that is not.
C5_Witness ==
    /\ SeriesCall /\ BothBounds /\ call.from = call.to
    /\ outcome.kind = "return"
    /\ Len(outcome.value) = 1
    /\ outcome.value[1].index = Timestamp(call.from[1])
    /\ Len(Table) > 1

\* C6: weekly_price and weekly_volume with one bound return exactly the rows
\* dated on or after from_date (resp. on or before to_date), in ascending date
\* order, and never raise.
C6_OneBoundInclusive ==
    (SeriesCall /\ (call.from = None) # (call.to = None))
        => /\ outcome.kind = "return"
           /\ outcome.value = ExpectedSeries(ColumnOf(call.op), call.from, call.to)
           /\ IsAscending(outcome.value)

\* C6 witness: only from_date is given; the row of that day is the first one
\* returned and an earlier row is left out.
C6_Witness ==
    /\ SeriesCall /\ call.from # None /\ call.to = None
    /\ outcome.kind = "return"
    /\ Len(outcome.value) = 1
    /\ outcome.value[1].index = Timestamp(call.from[1])
    /\ Len(Table) = 2
    /\ Table[1].index < Timestamp(call.from[1])

\* C7: weekly_price and weekly_volume without bounds return one entry per row
\* of the table, with the row's date and value, in ascending date order.
C7_NoBoundsWholeColumn ==
    (SeriesCall /\ call.from = None /\ call.to = None)
        => /\ outcome.kind = "return"
           /\ Len(outcome.value) = Len(Table)
           /\ \A i \in DOMAIN Table :
                 /\ outcome.value[i].index = Table[i].index
                 /\ outcome.value[i].value = Table[i].cells[ColumnOf(call.op)]
           /\ \A i \in DOMAIN json_data[1] :
                 \E k \in DOMAIN outcome.value :
                    outcome.value[k].index = Timestamp(json_data[1][i].key.day)
           /\ IsAscending(outcome.value)

\* C7 witness: the mapping came latest day first, and the unbounded
\* weekly_volume returned both rows, earliest first.
C7_Witness ==
    /\ Returned("weekly_volume") /\ call.from = None /\ call.to = None
    /\ Len(json_data[1]) = 2
    /\ json_data[1][1].key.day > json_data[1][2].key.day
    /\ outcome.kind = "return"
    /\ Len(outcome.value) = 2
    /\ outcome.value[1].index < outcome.value[2].index

\* rows of the table dated in year y that carry a dividend > 0
PaidRows(y) ==
    {i \in DOMAIN Table :
        /\ index_year(Table[i].index) = y
        /\ ~IsNaN(Table[i].cells["dividend"])
        /\ Table[i].cells["dividend"][1] > 0}
YearInBounds(y, from, to) ==
    /\ from # None => from[1] <= y
    /\ to # None => y <= to[1]
TableYears == {index_year(Table[i].index) : i \in DOMAIN Table}

RECURSIVE PaidTotal(_)
PaidTotal(S) ==
    IF S = {} THEN 0
    ELSE LET i == CHOOSE x \in S : TRUE
         IN  Table[i].cells["dividend"][1] + PaidTotal(S \ {i})

\* C8: yearly_dividends with valid bounds returns, and every total it reports
\* is > 0 and belongs to a year with a paid dividend: a year whose rows all
\* have a dividend <= 0 is absent, and when no row has a dividend > 0 the
\* result is empty.
C8_DividendTotalsPositive ==
    (Returned("yearly_dividends") /\ ~Inverted)
        => /\ outcome.kind = "return"
           /\ \A k \in DOMAIN outcome.value :
                 /\ outcome.value[k].value[1] > 0
                 /\ PaidRows(outcome.value[k].index) # {}
           /\ (\A y \in TableYears : PaidRows(y) = {}) => outcome.value = << >>

\* C8 witness: every row of the table has dividend 0 or less, and the unbounded
\* yearly_dividends returned an empty result.
C8_Witness ==
    /\ Returned("yearly_dividends") /\ call.from = None /\ call.to = None
    /\ Len(Table) = 2
    /\ \E i \in DOMAIN Table : Table[i].cells["dividend"] = Num(0)
    /\ \A y \in TableYears : PaidRows(y) = {}
    /\ outcome.kind = "return" /\ outcome.value = << >>

\* C9: yearly_dividends with valid bounds returns exactly one entry for each
\* year within the bounds (each applied when given, both inclusive) that has a
\* row with dividend > 0, its value the sum of those dividends, the years in
\* ascending order, and no other entry.
C9_YearlyTotals ==
    (Returned("yearly_dividends") /\ ~Inverted)
        => /\ outcome.kind = "return"
           /\ {outcome.value[k].index : k \in DOMAIN outcome.value}
                 = {y \in TableYears : YearInBounds(y, call.from, call.to) /\ PaidRows(y) # {}}
           /\ \A j, k \in DOMAIN outcome.value :
                 j < k => outcome.value[j].index < outcome.value[k].index
           /\ \A k \in DOMAIN outcome.value :
                 outcome.value[k].value = Num(PaidTotal(PaidRows(outcome.value[k].index)))

\* C9 witness: both year bounds are given and equal, and the total of that
\* year adds up the dividends of two rows.
C9_Witness ==
    /\ Returned("yearly_dividends") /\ BothBounds /\ call.from = call.to
    /\ outcome.kind = "return"
    /\ Len(outcome.value) = 1
    /\ outcome.value[1].index = call.from[1]
    /\ Cardinality(PaidRows(call.from[1])) = 2
    /\ outcome.value[1].value[1] > 1

\* C10 (as claimed): when a row lies within the bounds,
\* highest_weekly_variation returns the calendar date, high, low and
\* high - low of one row within the bounds whose high - low is not exceeded by
\* any other row within the bounds.
C10_ReturnsMaxVariationRow ==
    (Returned("highest_weekly_variation") /\ ~Inverted
       /\ RowsInBounds(call.from, call.to) # << >>)
        => /\ outcome.kind = "return"
           /\ \E i \in DOMAIN Table :
                 LET high == Table[i].cells["high"]
                     low == Table[i].cells["low"]
                 IN  /\ InBounds(Table[i].index, call.from, call.to)
                     /\ ~IsNaN(high) /\ ~IsNaN(low)
                     /\ outcome.value.date = date_of(Table[i].index)
                     /\ outcome.value.high = <<high>>
                     /\ outcome.value.low = <<low>>
                     /\ outcome.value.variation = <<Num(high[1] - low[1])>>
                     /\ \A j \in DOMAIN Table :
                           (/\ InBounds(Table[j].index, call.from, call.to)
                            /\ ~IsNaN(Table[j].cells["high"])
                            /\ ~IsNaN(Table[j].cells["low"]))
                           => Table[j].cells["high"][1] - Table[j].cells["low"][1]
                                 <= high[1] - low[1]

\* C11 (as claimed): whenever no row of the table lies within the bounds of a
\* highest_weekly_variation call, with both bounds or with one, the call ends
\* with FinanceClientInvalidData "No data available for the specified date
\* range." and returns no tuple.
C11_NoRowAlwaysInvalidData ==
    (Returned("highest_weekly_variation") /\ RowsInBounds(call.from, call.to) = << >>)
        => Raised(InvalidData, <<NoRangeDataMsg>>)

\* C11 (amended): whenever no row of the table lies within the bounds of a
\* highest_weekly_variation call whose bounds are not inverted (one bound, or
\* from_date <= to_date), the call ends with FinanceClientInvalidData "No data
\* available for the specified date range." and returns no tuple; with
\* from_date > to_date it ends with FinanceClientParamError instead.
C11_NoRowInValidBounds ==
    (Returned("highest_weekly_variation") /\ RowsInBounds(call.from, call.to) = << >>)
        => IF Inverted
           THEN Raised(ParamError, <<DateRangeMsg>>)
           ELSE Raised(InvalidData, <<NoRangeDataMsg>>)

\* C11 witness: only from_date is given, it is later than the last date of a
\* table of two rows, and the call raised the no-data error.
C11_Witness ==
    /\ Returned("highest_weekly_variation")
    /\ call.from # None /\ call.to = None
    /\ Len(Table) = 2
    /\ date_of(Table[2].index) < call.from[1]
    /\ Raised(InvalidData, <<NoRangeDataMsg>>)

\* the table is one that construction builds from the answer's records
AsBuilt ==
    /\ data_frame # None
    /\ \E r \in build_data_frame(json_data) :
          r.kind = "return" /\ r.value = data_frame[1]

\* a step of a built client leaves the table as it is
TableKept == pc \in {"ready", "returned"} => data_frame' = data_frame

\* C12: once the client is built, no step changes the table: whatever query
\* is called, with whatever bounds, and whether it returns or raises, the
\* table after the call is the table before it.
C12_QueriesLeaveTable == [][TableKept]_vars

\* C12 witness: highest_weekly_variation has returned a tuple and the table is
\* still the one built from the answer, the seven columns and nothing else.
C12_Witness ==
    /\ Returned("highest_weekly_variation")
    /\ outcome.kind = "return"
    /\ AsBuilt
    /\ data_frame[1].columns = CanonicalNames
    /\ Len(Table) = 2

SameOutcome(a, b) ==
    /\ a.kind = b.kind
    /\ a.exc = b.exc
    /\ a.msg = b.msg
    /\ a.kind = "return" => a.value = b.value

\* C13: when a query is called with the arguments of a call the caller has
\* kept, its outcome equals the kept one (the same result, or the same error
\* with the same message), whatever queries were called in between.
C13_SameCallSameOutcome ==
    (pc = "returned" /\ memo # None /\ call = memo[1].call)
        => SameOutcome(outcome, memo[1].outcome)

\* C13 witness: weekly_price with a lower bound returned a row, the caller
\* kept it, called something else, and called weekly_price again with the
\* same bound.
C13_Witness ==
    /\ Returned("weekly_price")
    /\ memo # None
    /\ memo[1].other
    /\ call = memo[1].call
    /\ call.from # None
    /\ outcome.kind = "return"
    /\ outcome.value # << >>

\* the table has every row of the answer, renamed, typed, date-indexed, sorted
Complete ==
    /\ data_frame # None
    /\ LET df == data_frame[1]
           days == {json_data[1][i].key.day : i \in DOMAIN json_data[1]}
       IN  /\ CanonicalNames \subseteq df.columns
           /\ df.columns \cap KnownLabels = {}
           /\ Len(df.rows) = Len(json_data[1])
           /\ {df.rows[k].index : k \in DOMAIN df.rows} = {Timestamp(d) : d \in days}
           /\ \A k \in DOMAIN df.rows : ~IsNaN(df.rows[k].cells["volume"])
           /\ IsAscending(df.rows)

C15_ExactlySevenColumns ==
    Built => /\ data_frame[1].columns = CanonicalNames
             /\ \A i \in DOMAIN json_data[1] : DOMAIN json_data[1][i].rec = KnownLabels

\* C16 (as claimed): in every built table each row holds a number for each of
\* the seven fields (a record that leaves a field out makes construction
\* fail).
C16_EveryCellDefined ==
    Built => \A i \in DOMAIN Table : \A c \in CanonicalNames : ~IsNaN(Table[i].cells[c])

\* C17: a query has returned a result only on a client that is with its
\* caller and has its complete table; every query call begins with the
\* assertion that the table exists, and a call made while there is no table
\* ends with AssertionError at that statement and hands out no client; a
\* client with its caller always has its table.
C17_NoResultBeforeBuilt ==
    /\ outcome.kind = "return" => (pc = "returned" /\ Complete)
    /\ call.op # "none" => (steps # << >> /\ steps[1] = "assert")
    /\ (call.op # "none" /\ data_frame = None)
          => /\ Raised(AssertionError, assert_message(call.op))
             /\ steps = <<"assert", "raise">>
             /\ pc = "failed"
    /\ pc \in {"ready", "returned"} => data_frame # None

\* C17 witness: highest_weekly_variation was called while the constructor was
\* still to build the table from the records it had, and the assertion failed.
C17_Witness ==
    /\ call.op = "highest_weekly_variation"
    /\ json_data # None /\ json_data[1] # << >>
    /\ data_frame = None
    /\ pc = "failed"
    /\ Raised(AssertionError, <<BuiltMsg>>)

\* C18 (as claimed): when a query raises ParamError for from > to, it has run
\* no statement that filters or copies table data: not the date or year
\* filter, not the dropping of non-positive dividends, not the copy of the
\* high and low columns.
C18_RangeCheckBeforeAnyWork ==
    (pc = "returned" /\ outcome.kind = "raise" /\ outcome.exc = ParamError)
        => \A k \in DOMAIN steps :
              steps[k] \notin {"filter_positive", "filter_years", "slice", "copy"}

\* the rows within the bounds of the call whose high - low is a number not
\* exceeded by the high - low of any row within the bounds
Variation(i) == Table[i].cells["high"][1] - Table[i].cells["low"][1]
Measured(i) ==
    /\ InBounds(Table[i].index, call.from, call.to)
    /\ ~IsNaN(Table[i].cells["high"])
    /\ ~IsNaN(Table[i].cells["low"])
MaxRows ==
    {i \in DOMAIN Table :
        Measured(i) /\ \A j \in DOMAIN Table : Measured(j) => Variation(j) <= Variation(i)}

\* C19: when two or more rows within the bounds share the highest high - low,
\* highest_weekly_variation returns a tuple whose date is the earliest date
\* among them, and when one row only carries that date, its high, low and
\* high - low.
C19_EarliestOfTies ==
    (Returned("highest_weekly_variation") /\ ~Inverted)
        => LET ties == MaxRows IN
           Cardinality(ties) >= 2
              => /\ outcome.kind = "return"
                 /\ \E i \in ties :
                       /\ \A j \in ties : Table[i].index <= Table[j].index
                       /\ outcome.value.date = date_of(Table[i].index)
                       /\ (\A j \in DOMAIN Table : Table[j].index = Table[i].index => j = i)
                             => /\ outcome.value.high = <<Table[i].cells["high"]>>
                                /\ outcome.value.low = <<Table[i].cells["low"]>>
                                /\ outcome.value.variation = <<Num(Variation(i))>>

\* C19 witness: two rows of different dates and different highs have the same
\* high - low, and the unbounded call returned the earlier one.
C19_Witness ==
    /\ Returned("highest_weekly_variation")
    /\ call.from = None /\ call.to = None
    /\ Len(Table) = 2
    /\ MaxRows = {1, 2}
    /\ Table[1].index < Table[2].index
    /\ Table[1].cells["high"] # Table[2].cells["high"]
    /\ outcome.kind = "return"
    /\ outcome.value.date = date_of(Table[1].index)
    /\ outcome.value.high = <<Table[1].cells["high"]>>

\* C20 (as claimed): after the caller has written into a Series returned by
\* weekly_price or weekly_volume, the table is still the one built from the
\* answer.
C20_WriteLeavesTable ==
    (writes > 0 /\ data_frame # None) => AsBuilt

\* the row holds what the entry says: its key's date as Timestamp, and for
\* each label of its record the number its string denotes
RowOf(row, entry) ==
    /\ row.index = Timestamp(entry.key.day)
    /\ \A l \in DOMAIN entry.rec :
          /\ float(entry.rec[l]) # None
          /\ row.cells[new_name(l)] = float(entry.rec[l])[1]

Successors(at) ==
    CASE at = "new" -> {"validate", "failed"}
      [] at = "validate" -> {"build", "failed"}
      [] at = "build" -> {"ready", "failed"}
      [] at = "ready" -> {"returned"}
      [] at = "returned" -> {"ready"}
      [] OTHER -> {}

\* a step keeps to that order; the answer is taken in by the first step only;
\* once the symbol has been checked and is not the ticker, construction has
\* failed without a table; the table is assigned by the build step only
OrderedStep ==
    /\ pc' \in Successors(pc)
    /\ pc # "new" => (json_metadata' = json_metadata /\ json_data' = json_data)
    /\ (pc' \notin {"new", "validate"} /\ json_metadata'.symbol # Some(ticker'))
          => (pc' = "failed" /\ data_frame' = None)
    /\ pc # "build" => data_frame' = data_frame

\* C22: construction queries the data source, then checks the metadata
\* symbol, then builds the table from the records, each once and in this
\* order; a symbol that is not the ticker ends construction before a table
\* exists; and after construction no step replaces the table or changes its
\* rows.
C22_ConstructionOrder == [][OrderedStep]_vars

\* C22 witness: the answer had records a table can be built from, but another
\* ticker's symbol, and construction failed at the metadata with no table.
C22_Witness ==
    /\ pc = "failed"
    /\ json_metadata.symbol # None /\ json_metadata.symbol[1] # ticker
    /\ json_data # None
    /\ \E r \in build_data_frame(json_data) : r.kind = "return"
    /\ data_frame = None
    /\ error[1].msg = <<SymbolMsg>>

\* construction got as far as _build_data_frame and failed there
BuildFailed == Answered /\ SymbolValid /\ pc = "failed"
\* the parsed frame of the records is empty
ParsedEmpty ==
    LET parsed == from_dict(json_data[1])
    IN  parsed # None /\ frame_empty(parsed[1])

\* C23: a construction that fails in _build_data_frame fails with
\* FinanceClientInvalidData and no other exception, whatever went wrong (empty
\* parsed frame, missing column, failed conversion, key that is no date). With
\* no records the message is the no-data message as it is; otherwise the
\* message starts with "Error building DataFrame from API response: " followed
\* by the cause, and for an empty parsed frame the cause is "DataFrame is empty
\* after parsing JSON data.".
C23_BuildFailuresAreInvalidData ==
    BuildFailed
        => /\ error # None /\ error[1].kind = "raise"
           /\ error[1].exc = InvalidData
           /\ data_frame = None
           /\ IF NoRecords
              THEN error[1].msg = <<NoDataMsg>>
              ELSE /\ Len(error[1].msg) = 2
                   /\ error[1].msg[1] = BuildErrorPrefix
                   /\ error[1].msg[2] # NoDataMsg
                   /\ ParsedEmpty => error[1].msg[2] = EmptyFrameMsg

\* C23 witness: the only record has no field, the parsed frame is empty, and
\* construction failed with the empty-frame message behind the prefix.
C23_Witness ==
    /\ BuildFailed /\ ~NoRecords
    /\ Len(json_data[1]) = 1
    /\ json_data[1][1].rec = EmptyRecord
    /\ error[1].exc = InvalidData
    /\ error[1].msg = <<BuildErrorPrefix, EmptyFrameMsg>>

\* the mappings that hold the entries of m in another order
Reordered(m) ==
    LET n == Len(m)
    IN  {[k \in 1..n |-> m[p[k]]] :
            p \in {q \in [1..n -> 1..n] : \A i, j \in 1..n : i # j => q[i] # q[j]}}
\* no two keys of the mapping denote the same date
DistinctDates(m) == \A i, j \in DOMAIN m : i # j => m[i].key.day # m[j].key.day

\* C24: the table does not depend on the order of the mapping: when no two
\* keys denote the same date, building from the same entries in any other
\* order gives the very table that was built (and so the same query results).
C24_OrderIndependent ==
    (pc = "ready" /\ DistinctDates(json_data[1]))
        => \A m \in Reordered(json_data[1]) :
              build_data_frame(Some(m)) = {Return(data_frame[1])}

\* C24 witness: two different records of distinct dates came latest first, and
\* the table holds them earliest first.
C24_Witness ==
    /\ pc = "ready"
    /\ Len(json_data[1]) = 2
    /\ json_data[1][1].key.day > json_data[1][2].key.day
    /\ Len(Table) = 2
    /\ Table[1].index = Timestamp(json_data[1][2].key.day)
    /\ Table[2].index = Timestamp(json_data[1][1].key.day)
    /\ Table[1].cells # Table[2].cells

\* highest_weekly_variation has returned a tuple
TupleReturned == Returned("highest_weekly_variation") /\ outcome.kind = "return"

\* C25 (as claimed): every tuple highest_weekly_variation returns is that of
\* one row of the table: the row lies within the bounds of the call, the
\* tuple's date is the row's calendar date, its high and low are the row's
\* high and low, and its variation is the row's high minus the row's low.
C25_TupleIsOneRow ==
    TupleReturned
        => \E i \in DOMAIN Table :
              /\ InBounds(Table[i].index, call.from, call.to)
              /\ outcome.value.date = date_of(Table[i].index)
              /\ outcome.value.high = <<Table[i].cells["high"]>>
              /\ outcome.value.low = <<Table[i].cells["low"]>>
              /\ outcome.value.variation
                    = <<minus(Table[i].cells["high"], Table[i].cells["low"])>>

\* the bounds [from2, to2] hold the bounds [from, to]
Widens(from, to, from2, to2) ==
    /\ from2 = None \/ (from # None /\ from2[1] <= from[1])
    /\ to2 = None \/ (to # None /\ to2[1] >= to[1])
\* the variation of a returned tuple is one number
IsNumber(variation) == Len(variation) = 1 /\ ~IsNaN(variation[1])

\* C26 (as claimed): whenever highest_weekly_variation has returned a tuple,
\* the call with any bounds that hold the bounds of this call, the call with
\* no bounds included, returns a variation that is a number not below this
\* call's variation whenever it returns.
C26_WiderRangeNotLower ==
    TupleReturned
        => \A from2, to2 \in OptDates :
              Widens(call.from, call.to, from2, to2)
                  => \A wider \in highest_weekly_variation(data_frame[1], from2, to2) :
                        wider.kind = "return"
                            => /\ IsNumber(outcome.value.variation)
                               /\ IsNumber(wider.value.variation)
                               /\ wider.value.variation[1][1]
                                     >= outcome.value.variation[1][1]
====
